---- MODULE Spec2Model ----
(***************************************************************************)
(* Items API (src/main.py) over its relational store (src/models.py,       *)
(* src/database.py) and its soft-failing Redis cache (src/cache.py).       *)
(*                                                                         *)
(* Every request handler is a coroutine; it is modelled as a process whose *)
(* program counter names the next `await` of the handler.  One action is   *)
(* one await together with the synchronous code that follows it up to the  *)
(* next await (or the return / raise).                                     *)
(*                                                                         *)
(* Python values: Optional[T] is a sequence of length <= 1 (None == <<>>), *)
(* a JSON request body is a record holding exactly the keys the client     *)
(* sent, a uuid.UUID is a number and its spellings are strings.            *)
(***************************************************************************)
EXTENDS Integers, FiniteSets, Sequences, Bags, TLC

\* Number of requests the server handles concurrently.
NumProcs == 2

\* Number of requests the server receives in one run.
MaxRequests == 3

\* Number of requests of a run in which requests are handled one at a time.
MaxSeqRequests == 4

\* Number of writes of a run in which reads go on for ever.
MaxLiveWrites == 1

\* Number of cache operations in flight at once.
NumTasks == 2

\* Number of cache operations called in one run of the cache client.
MaxCacheOps == 4

Procs == 1..NumProcs

None == <<>>

Some(x) == <<x>>

(***************************************************************************)
(* Identifiers.  uuid.UUID(s) accepts several spellings of one identifier  *)
(* (upper case, no hyphens, braces, urn: prefix) and raises ValueError on  *)
(* everything else, the empty string included; str(u) is the one canonical *)
(* lower-case spelling.                                                    *)
(***************************************************************************)
UUIDs == {1, 2}

Spellings == [s \in {"u1", "U1", "u2"} |-> IF s = "u2" THEN 2 ELSE 1]

Malformed == {"", "zz"}

IdStrings == DOMAIN Spellings \cup Malformed

\* uuid.UUID(s) does not raise ValueError
IsUuid(s) == s \in DOMAIN Spellings

\* uuid.UUID(s)
UUID(s) == Spellings[s]

\* str(u)
Str(u) == IF u = 1 THEN "u1" ELSE "u2"

(***************************************************************************)
(* Request bodies and the ItemCreate schema.                               *)
(***************************************************************************)
Widget == [name |-> "n1", description |-> "d1", price |-> 1]

Gadget == [name |-> "n2", price |-> 2, in_stock |-> Some(FALSE)]

Contents == {Widget, Gadget, Widget @@ [in_stock |-> None]}

WithId(c, s) == [k \in DOMAIN c \cup {"id"} |-> IF k = "id" THEN s ELSE c[k]]

CreateBodies ==
    Contents \cup {WithId(Widget, s) : s \in IdStrings \ {"u2"}} \cup {WithId(Gadget, "u1")}

UpdateBodies == Contents \cup {WithId(Widget, "u2")}

\* pydantic's ItemCreate(**body)
ItemCreate(body) ==
    [ id          |-> IF "id" \in DOMAIN body THEN Some(body.id) ELSE None,
      name        |-> body.name,
      description |-> IF "description" \in DOMAIN body THEN Some(body.description) ELSE None,
      price       |-> body.price,
      in_stock    |-> IF "in_stock" \in DOMAIN body THEN body.in_stock ELSE Some(TRUE) ]

\* Python truthiness of an Optional[str]: None and "" are falsy
Truthy(v) == v # None /\ v[1] # ""

\* ItemResponse(id=str(item.id), name=item.name, ...)
ItemResponse(row) ==
    [ id          |-> Str(row.id),
      name        |-> row.name,
      description |-> row.description,
      price       |-> row.price,
      in_stock    |-> row.in_stock ]

\* json.dumps(x)
JsonDumps(x) == <<"json", x>>

\* json.loads(s)
JsonLoads(s) == s[2]

(***************************************************************************)
(* The items table: a bag of rows.                                         *)
(***************************************************************************)
RowsOf(st) == BagToSet(st)

\* select(ItemModel).where(ItemModel.id == u)
SelectById(st, u) == {r \in RowsOf(st) : r.id = u}

\* result.scalar_one_or_none()
ScalarOneOrNone(st, u) ==
    LET rows == SelectById(st, u)
    IN  IF rows = {} THEN [err |-> "", row |-> None]
        ELSE IF Cardinality(rows) = 1 /\ CopiesIn(CHOOSE r \in rows : TRUE, st) = 1
             THEN [err |-> "", row |-> Some(CHOOSE r \in rows : TRUE)]
             ELSE [err |-> "MultipleResultsFound", row |-> None]

\* select(ItemModel); result.scalars().all(), as responses
SelectAll(st) == {ItemResponse(r) : r \in RowsOf(st)}

\* INSERT into a table whose id column is no key
InsertUnconstrained(st, row) == [err |-> "", store |-> st (+) SetToBag({row})]

\* INSERT of one row; the primary key (models.py) rejects a second row with the id
Insert(st, row) ==
    IF SelectById(st, row.id) # {}
    THEN [err |-> "IntegrityError", store |-> st]
    ELSE [err |-> "", store |-> st (+) SetToBag({row})]

\* The columns the unit of work writes: those whose value was changed after the load
Changed(loaded, new) == {c \in {"name", "description", "price", "in_stock"} : new[c] # loaded[c]}

\* UPDATE items SET <changed columns>, with no WHERE clause
UpdateEveryRow(st, loaded, new) ==
    LET cols == Changed(loaded, new)
        set(r) == [c \in DOMAIN r |-> IF c \in cols THEN new[c] ELSE r[c]]
    IN  [err |-> "", store |-> SetToBag({set(r) : r \in RowsOf(st)})]

\* UPDATE items SET <changed columns> WHERE id = loaded.id
Update(st, loaded, new) ==
    LET cols == Changed(loaded, new)
        hit  == SelectById(st, loaded.id)
        set(r) == [c \in DOMAIN r |-> IF c \in cols THEN new[c] ELSE r[c]]
    IN  IF cols = {} THEN [err |-> "", store |-> st]
        ELSE IF hit = {} THEN [err |-> "StaleDataError", store |-> st]
        ELSE [err |-> "",
              store |-> SetToBag({r \in RowsOf(st) : r.id # loaded.id})
                        (+) SetToBag({set(r) : r \in hit})]

\* DELETE FROM items WHERE id = u (no row matched: a warning, not an error)
Delete(st, u) == [r \in {x \in RowsOf(st) : x.id # u} |-> st[r]]

(***************************************************************************)
(* The cache client (src/cache.py).  `fail` is the Redis call raising.     *)
(***************************************************************************)
KeyAll == <<"items", "all">>

\* f"items:{item_id}"
ItemKey(s) == <<"items", s>>

CacheKeys == {KeyAll} \cup {ItemKey(s) : s \in DOMAIN Spellings}

\* get_cache without its try/except: the Redis error reaches the handler
get_cache_raising(c, key, fail) == [raised |-> fail, value |-> IF fail THEN None ELSE c[key]]

get_cache(c, key, fail) ==
    IF fail THEN [raised |-> FALSE, value |-> None]
    ELSE [raised |-> FALSE, value |-> c[key]]

\* set_cache that reports success without storing the value
set_cache_dropped(c, key, value, fail) == [raised |-> FALSE, ret |-> TRUE, cache |-> c]

set_cache(c, key, value, fail) ==
    IF fail THEN [raised |-> FALSE, ret |-> FALSE, cache |-> c]
    ELSE [raised |-> FALSE, ret |-> TRUE, cache |-> [c EXCEPT ![key] = Some(value)]]

\* delete_cache that reports success without deleting the key
delete_cache_kept(c, key, fail) == [raised |-> FALSE, ret |-> TRUE, cache |-> c]

delete_cache(c, key, fail) ==
    IF fail THEN [raised |-> FALSE, ret |-> FALSE, cache |-> c]
    ELSE [raised |-> FALSE, ret |-> TRUE, cache |-> [c EXCEPT ![key] = None]]

(***************************************************************************)
(* State.                                                                  *)
(***************************************************************************)
VARIABLES
    store,   \* the items table
    cache,   \* Redis: key -> Optional[str]
    pc,      \* per request slot: the await the handler is suspended at
    req,     \* per request slot: the HTTP request
    loc,     \* per request slot: the handler's local variables
    resp,    \* per request slot: the HTTP response
    nreq,    \* requests received so far
    ver,     \* history: number of commits made to the store
    prov,    \* history: per cache key, the store version its value was read at
    wrote,   \* history: per cache key, the last successful write touching it
    last,    \* history: per identifier, the last successful write if nothing was committed since
    hist,    \* history: requests overlapped, a cache delete failed, an identifier was
             \* not spelled canonically, the identifiers seen
    gh,      \* history, per request slot: what the request has done
    redis_client,  \* cache.py's global: Optional[connection]
    conn,    \* the connections made and closed, the cache operations called
    task     \* per cache operation in flight: its arguments, locals and await

\* the state of the cache client module
cvars == <<redis_client, conn, task>>

\* the state of the request handlers and the store
hvars == <<store, pc, req, loc, resp, nreq, ver, prov, wrote, last, hist, gh>>

vars == <<store, cache, pc, req, loc, resp, nreq, ver, prov, wrote, last, hist, gh, cvars>>

NoBody == <<>>

\* the coroutines running an operation of the cache client
Tasks == 1..NumTasks

NoTask == [op |-> "none", key |-> <<>>, pc |-> "idle", client |-> 0, keys |-> {}, ret |-> None]

NoReq == [op |-> "none", item_id |-> "", body |-> NoBody]

NoLoc == [item_uuid |-> 0, db_item |-> None, listing |-> {}]

NoResp == [status |-> 0, detail |-> "", item |-> None, items |-> {}]

NoGh == [touched |-> FALSE, cacheErr |-> FALSE, committed |-> FALSE, rver |-> 0, cver |-> 0,
         prior |-> None]

NoWrite == [op |-> "none", ver |-> 0, item_id |-> "", item |-> None, body |-> NoBody]

\* Rows the table may hold when the service starts (the table is persistent)
SeedRow == [id |-> 1, name |-> "n2", description |-> None, price |-> 2, in_stock |-> FALSE]

Requests ==
    {[op |-> "list", item_id |-> "", body |-> NoBody]}
    \cup {[op |-> o, item_id |-> s, body |-> NoBody] : o \in {"get", "delete"}, s \in IdStrings \ {""}}
    \cup {[op |-> "create", item_id |-> "", body |-> b] : b \in CreateBodies}
    \cup {[op |-> "update", item_id |-> s, body |-> b] : s \in IdStrings \ {""}, b \in UpdateBodies}

Entry(op) ==
    CASE op = "list"   -> "list_get_cache"
      [] op = "get"    -> "get_get_cache"
      [] op = "create" -> "create_select"
      [] op = "update" -> "update_select"
      [] op = "delete" -> "delete_select"

Init ==
    /\ store \in {EmptyBag, SetToBag({SeedRow})}
    /\ cache = [k \in CacheKeys |-> None]
    /\ pc = [p \in Procs |-> "idle"]
    /\ req = [p \in Procs |-> NoReq]
    /\ loc = [p \in Procs |-> NoLoc]
    /\ resp = [p \in Procs |-> NoResp]
    /\ nreq = 0
    /\ ver = 0
    /\ prov = [k \in CacheKeys |-> 0]
    /\ wrote = [k \in CacheKeys |-> [ver |-> 0, op |-> "none"]]
    /\ last = [u \in UUIDs |-> NoWrite]
    /\ hist = [overlap |-> FALSE, lost |-> FALSE, spelled |-> FALSE,
               used |-> {r.id : r \in RowsOf(store)}]
    /\ gh = [p \in Procs |-> NoGh]
    /\ redis_client = None
    /\ conn = [opened |-> 0, closed |-> {}, ops |-> 0, down |-> FALSE]
    /\ task = [t \in Tasks |-> NoTask]

(***************************************************************************)
(* Control: suspend at the next await, return a response, raise.           *)
(***************************************************************************)
\* the handler in slot p is suspended at l; a returned response is sent at once
At(p, l) == pc[p] = l /\ \A q \in Procs : pc[q] # "done"

Goto(p, l) == pc' = [pc EXCEPT ![p] = l] /\ resp' = resp

Return(p, r) == pc' = [pc EXCEPT ![p] = "done"] /\ resp' = [resp EXCEPT ![p] = r]

\* raise HTTPException(status_code=status, detail=detail)
HTTPException(p, status, detail) ==
    Return(p, [NoResp EXCEPT !.status = status, !.detail = detail])

\* an exception no handler catches: the framework answers 500
ServerError(p, e) == Return(p, [NoResp EXCEPT !.status = 500, !.detail = e])

\* the identifiers a request names
Named(r) ==
    {UUID(s) : s \in {x \in {r.item_id} \cup (IF "id" \in DOMAIN r.body THEN {r.body.id} ELSE {}) :
                       IsUuid(x)}}

\* every well-formed identifier string of the request is the canonical spelling str(uuid)
Canonical(r) ==
    \A s \in {r.item_id} \cup (IF "id" \in DOMAIN r.body THEN {r.body.id} ELSE {}) :
        IsUuid(s) => s = Str(UUID(s))

\* create_item will generate the identifier (line 139: `if item.id:` is false)
Generates(r) == r.op = "create" /\ ~Truthy(ItemCreate(r.body).id)

\* the identifiers generated for requests in flight: no client knows them yet
Unpublished == {loc[q].item_uuid : q \in {x \in Procs : Generates(req[x])}}

\* the server receives a request of R; uuid.uuid4() (line 145) draws an
\* identifier that nothing has named before
Admit(p, R) ==
    /\ At(p, "idle")
    /\ \E r \in R :
         /\ Named(r) \cap Unpublished = {}
         /\ req' = [req EXCEPT ![p] = r]
         /\ pc' = [pc EXCEPT ![p] = Entry(r.op)]
         /\ \E u \in IF Generates(r) THEN UUIDs \ hist.used ELSE {0} :
              /\ loc' = [loc EXCEPT ![p].item_uuid = u]
              /\ hist' = [hist EXCEPT
                            !.overlap = @ \/ \E q \in Procs \ {p} : pc[q] # "idle",
                            !.spelled = @ \/ ~Canonical(r),
                            !.used = @ \cup Named(r) \cup ({u} \ {0})]
    /\ UNCHANGED <<store, cache, resp, ver, prov, wrote, last, gh, cvars>>

\* the server receives one of the run's requests
Start(p, max) ==
    /\ nreq < max
    /\ nreq' = nreq + 1
    /\ Admit(p, Requests)

\* the response has been sent; the slot is free again
Finish(p) ==
    /\ pc[p] = "done"
    /\ pc' = [pc EXCEPT ![p] = "idle"]
    /\ req' = [req EXCEPT ![p] = NoReq]
    /\ loc' = [loc EXCEPT ![p] = NoLoc]
    /\ resp' = [resp EXCEPT ![p] = NoResp]
    /\ gh' = [gh EXCEPT ![p] = NoGh]
    /\ UNCHANGED <<store, cache, nreq, ver, prov, wrote, last, hist, cvars>>

\* entries that never expire
ExpireNever(k) == FALSE /\ UNCHANGED vars

\* the TTL of a cache entry runs out (set_cache stores every value with setex)
Expire(k) ==
    /\ \A q \in Procs : pc[q] # "done"
    /\ cache[k] # None
    /\ cache' = [cache EXCEPT ![k] = None]
    /\ prov' = [prov EXCEPT ![k] = 0]
    /\ UNCHANGED <<store, pc, req, loc, resp, nreq, ver, wrote, last, hist, gh, cvars>>

(***************************************************************************)
(* list_items                                                              *)
(***************************************************************************)
ListGetCache(p) ==
    /\ At(p, "list_get_cache")
    /\ \E fail \in BOOLEAN :
         LET r == get_cache(cache, KeyAll, fail)
         IN  /\ gh' = [gh EXCEPT ![p].touched = TRUE, ![p].cacheErr = @ \/ fail]
             /\ IF r.raised THEN ServerError(p, "RedisError")
                ELSE IF r.value # None
                     THEN Return(p, [NoResp EXCEPT !.status = 200,
                                                   !.items = JsonLoads(r.value[1])])
                     ELSE Goto(p, "list_select")
    /\ UNCHANGED <<store, cache, req, loc, nreq, ver, prov, wrote, last, hist, cvars>>

ListSelect(p) ==
    /\ At(p, "list_select")
    /\ loc' = [loc EXCEPT ![p].listing = SelectAll(store)]
    /\ gh' = [gh EXCEPT ![p].rver = ver]
    /\ Goto(p, "list_set_cache")
    /\ UNCHANGED <<store, cache, req, nreq, ver, prov, wrote, last, hist, cvars>>

ListSetCache(p) ==
    /\ At(p, "list_set_cache")
    /\ \E fail \in BOOLEAN :
         LET r == set_cache(cache, KeyAll, JsonDumps(loc[p].listing), fail)
         IN  /\ cache' = r.cache
             /\ prov' = IF r.ret THEN [prov EXCEPT ![KeyAll] = gh[p].rver] ELSE prov
             /\ gh' = [gh EXCEPT ![p].cacheErr = @ \/ fail]
             /\ IF r.raised THEN ServerError(p, "RedisError")
                ELSE Return(p, [NoResp EXCEPT !.status = 200, !.items = loc[p].listing])
    /\ UNCHANGED <<store, req, loc, nreq, ver, wrote, last, hist, cvars>>

(***************************************************************************)
(* get_item                                                                *)
(***************************************************************************)
GetGetCache(p) ==
    /\ At(p, "get_get_cache")
    /\ IF ~IsUuid(req[p].item_id)
       THEN /\ HTTPException(p, 400, "Invalid UUID format")
            /\ UNCHANGED <<loc, gh>>
       ELSE \E fail \in BOOLEAN :
              LET r == get_cache(cache, ItemKey(req[p].item_id), fail)
              IN  /\ loc' = [loc EXCEPT ![p].item_uuid = UUID(req[p].item_id)]
                  /\ gh' = [gh EXCEPT ![p].touched = TRUE, ![p].cacheErr = @ \/ fail]
                  /\ IF r.raised THEN ServerError(p, "RedisError")
                     ELSE IF r.value # None
                          THEN Return(p, [NoResp EXCEPT !.status = 200,
                                                        !.item = Some(JsonLoads(r.value[1]))])
                          ELSE Goto(p, "get_select")
    /\ UNCHANGED <<store, cache, req, nreq, ver, prov, wrote, last, hist, cvars>>

\* get_item that caches a NOT_FOUND result under the item's key
GetSelectNegative(p) ==
    /\ At(p, "get_select")
    /\ LET r == ScalarOneOrNone(store, loc[p].item_uuid)
       IN  /\ loc' = [loc EXCEPT ![p].db_item = r.row]
           /\ gh' = [gh EXCEPT ![p].rver = ver]
           /\ cache' = IF r.row = None
                       THEN [cache EXCEPT ![ItemKey(req[p].item_id)] = Some(JsonDumps("null"))]
                       ELSE cache
           /\ IF r.err # "" THEN ServerError(p, r.err)
              ELSE IF r.row = None THEN HTTPException(p, 404, "Item not found")
              ELSE Goto(p, "get_set_cache")
    /\ UNCHANGED <<store, req, nreq, ver, prov, wrote, last, hist, cvars>>

GetSelect(p) ==
    /\ At(p, "get_select")
    /\ LET r == ScalarOneOrNone(store, loc[p].item_uuid)
       IN  /\ loc' = [loc EXCEPT ![p].db_item = r.row]
           /\ gh' = [gh EXCEPT ![p].rver = ver]
           /\ IF r.err # "" THEN ServerError(p, r.err)
              ELSE IF r.row = None THEN HTTPException(p, 404, "Item not found")
              ELSE Goto(p, "get_set_cache")
    /\ UNCHANGED <<store, cache, req, nreq, ver, prov, wrote, last, hist, cvars>>

GetSetCache(p) ==
    /\ At(p, "get_set_cache")
    /\ \E fail \in BOOLEAN :
         LET response == ItemResponse(loc[p].db_item[1])
             key == ItemKey(req[p].item_id)
             r == set_cache(cache, key, JsonDumps(response), fail)
         IN  /\ cache' = r.cache
             /\ prov' = IF r.ret THEN [prov EXCEPT ![key] = gh[p].rver] ELSE prov
             /\ gh' = [gh EXCEPT ![p].cacheErr = @ \/ fail]
             /\ IF r.raised THEN ServerError(p, "RedisError")
                ELSE Return(p, [NoResp EXCEPT !.status = 200, !.item = Some(response)])
    /\ UNCHANGED <<store, req, loc, nreq, ver, wrote, last, hist, cvars>>

(***************************************************************************)
(* History kept for the write handlers.                                    *)
(***************************************************************************)
\* a commit touching identifier u was made: it is version ver + 1 of the store
Committed(p, u) ==
    /\ ver' = ver + 1
    /\ gh' = [gh EXCEPT ![p].committed = TRUE, ![p].cver = ver + 1]
    /\ last' = [last EXCEPT ![u] = [NoWrite EXCEPT !.ver = ver + 1]]

\* a write of identifier u that named the cache keys `keys` returns its success response
Succeeded(p, u, keys, item) ==
    /\ wrote' = [k \in CacheKeys |->
                   IF k \in keys /\ gh[p].cver >= wrote[k].ver
                   THEN [ver |-> gh[p].cver, op |-> req[p].op]
                   ELSE wrote[k]]
    /\ last' = IF last[u].ver = gh[p].cver
               THEN [last EXCEPT ![u] = [op |-> req[p].op, ver |-> gh[p].cver,
                                         item_id |-> req[p].item_id, item |-> item,
                                         body |-> req[p].body]]
               ELSE last

\* a write handler that does not invalidate
InvalidateNothing(p, key, fail) == UNCHANGED <<cache, prov, hist, gh>>

\* await delete_cache(key) inside a write handler
Invalidate(p, key, fail) ==
    LET r == delete_cache(cache, key, fail)
    IN  /\ cache' = r.cache
        /\ prov' = IF r.ret THEN [prov EXCEPT ![key] = 0] ELSE prov
        /\ hist' = [hist EXCEPT !.lost = @ \/ ~r.ret]
        /\ gh' = [gh EXCEPT ![p].cacheErr = @ \/ fail]

(***************************************************************************)
(* create_item                                                             *)
(***************************************************************************)
\* ItemModel(id=item_uuid, name=item.name, ...)
NewRow(u, item) ==
    [ id          |-> u,
      name        |-> item.name,
      description |-> item.description,
      price       |-> item.price,
      in_stock    |-> IF item.in_stock # None THEN item.in_stock[1] ELSE TRUE ]

\* the existence check left out: every create goes on to insert
CreateUnchecked(p, u) ==
    /\ loc' = [loc EXCEPT ![p].item_uuid = u]
    /\ gh' = [gh EXCEPT ![p].touched = TRUE]
    /\ Goto(p, "create_commit")

\* lines 147-151: the existence check for identifier u
CreateCheck(p, u) ==
    LET r == ScalarOneOrNone(store, u)
    IN  /\ loc' = [loc EXCEPT ![p].item_uuid = u]
        /\ gh' = [gh EXCEPT ![p].touched = TRUE]
        /\ IF r.err # "" THEN ServerError(p, r.err)
           ELSE IF r.row # None THEN HTTPException(p, 400, "Item with this ID already exists")
           ELSE Goto(p, "create_commit")

CreateSelect(p) ==
    /\ At(p, "create_select")
    /\ LET item == ItemCreate(req[p].body)
       IN  IF Truthy(item.id)
           THEN IF ~IsUuid(item.id[1])
                THEN /\ HTTPException(p, 400, "Invalid UUID format")
                     /\ UNCHANGED <<loc, gh>>
                ELSE CreateCheck(p, UUID(item.id[1]))
           ELSE CreateCheck(p, loc[p].item_uuid)
    /\ UNCHANGED <<store, cache, req, nreq, ver, prov, wrote, last, hist, cvars>>

CreateCommit(p) ==
    /\ At(p, "create_commit")
    /\ LET row == NewRow(loc[p].item_uuid, ItemCreate(req[p].body))
           r == Insert(store, row)
       IN  IF r.err # ""
           THEN /\ ServerError(p, r.err)
                /\ UNCHANGED <<store, loc, ver, gh, last>>
           ELSE /\ store' = r.store
                /\ loc' = [loc EXCEPT ![p].db_item = Some(row)]
                /\ Committed(p, row.id)
                /\ Goto(p, "create_refresh")
    /\ UNCHANGED <<cache, req, nreq, prov, wrote, hist, cvars>>

\* await db.refresh(db_item): the row is read again by primary key
Refresh(p, next) ==
    LET r == ScalarOneOrNone(store, loc[p].item_uuid)
    IN  /\ loc' = [loc EXCEPT ![p].db_item = r.row]
        /\ IF r.err # "" THEN ServerError(p, r.err)
           ELSE IF r.row = None THEN ServerError(p, "InvalidRequestError")
           ELSE Goto(p, next)

CreateRefresh(p) ==
    /\ At(p, "create_refresh")
    /\ Refresh(p, "create_invalidate")
    /\ UNCHANGED <<store, cache, req, nreq, ver, prov, wrote, last, hist, gh, cvars>>

CreateInvalidate(p) ==
    /\ At(p, "create_invalidate")
    /\ \E fail \in BOOLEAN : Invalidate(p, KeyAll, fail)
    /\ LET response == ItemResponse(loc[p].db_item[1])
       IN  /\ Return(p, [NoResp EXCEPT !.status = 201, !.item = Some(response)])
           /\ Succeeded(p, loc[p].item_uuid, {KeyAll, ItemKey(response.id)}, Some(response))
    /\ UNCHANGED <<store, req, loc, nreq, ver, cvars>>

(***************************************************************************)
(* update_item                                                             *)
(***************************************************************************)
\* lines 190-193: the attributes assigned to the loaded row
Assign(db_item, item) ==
    [ id          |-> db_item.id,
      name        |-> item.name,
      description |-> item.description,
      price       |-> item.price,
      in_stock    |-> IF item.in_stock # None THEN item.in_stock[1] ELSE db_item.in_stock ]

\* lines 179-188 and 214-223: validate the path identifier, load the row
Load(p, next) ==
    IF ~IsUuid(req[p].item_id)
    THEN /\ HTTPException(p, 400, "Invalid UUID format")
         /\ UNCHANGED <<loc, gh>>
    ELSE LET r == ScalarOneOrNone(store, UUID(req[p].item_id))
         IN  /\ loc' = [loc EXCEPT ![p].item_uuid = UUID(req[p].item_id), ![p].db_item = r.row]
             /\ gh' = [gh EXCEPT ![p].touched = TRUE, ![p].prior = r.row]
             /\ IF r.err # "" THEN ServerError(p, r.err)
                ELSE IF r.row = None THEN HTTPException(p, 404, "Item not found")
                ELSE Goto(p, next)

UpdateSelect(p) ==
    /\ At(p, "update_select")
    /\ Load(p, "update_commit")
    /\ UNCHANGED <<store, cache, req, nreq, ver, prov, wrote, last, hist, cvars>>

UpdateCommit(p) ==
    /\ At(p, "update_commit")
    /\ LET loaded == loc[p].db_item[1]
           new == Assign(loaded, ItemCreate(req[p].body))
           r == Update(store, loaded, new)
       IN  IF r.err # ""
           THEN /\ ServerError(p, r.err)
                /\ UNCHANGED <<store, loc, ver, gh, last>>
           ELSE /\ store' = r.store
                /\ loc' = [loc EXCEPT ![p].db_item = Some(new)]
                /\ Committed(p, loaded.id)
                /\ Goto(p, "update_refresh")
    /\ UNCHANGED <<cache, req, nreq, prov, wrote, hist, cvars>>

UpdateRefresh(p) ==
    /\ At(p, "update_refresh")
    /\ Refresh(p, "update_invalidate_item")
    /\ UNCHANGED <<store, cache, req, nreq, ver, prov, wrote, last, hist, gh, cvars>>

UpdateInvalidateItem(p) ==
    /\ At(p, "update_invalidate_item")
    /\ \E fail \in BOOLEAN : Invalidate(p, ItemKey(req[p].item_id), fail)
    /\ Goto(p, "update_invalidate_all")
    /\ UNCHANGED <<store, req, loc, nreq, ver, wrote, last, cvars>>

UpdateInvalidateAll(p) ==
    /\ At(p, "update_invalidate_all")
    /\ \E fail \in BOOLEAN : Invalidate(p, KeyAll, fail)
    /\ LET response == ItemResponse(loc[p].db_item[1])
       IN  /\ Return(p, [NoResp EXCEPT !.status = 200, !.item = Some(response)])
           /\ Succeeded(p, loc[p].item_uuid, {KeyAll, ItemKey(req[p].item_id)}, Some(response))
    /\ UNCHANGED <<store, req, loc, nreq, ver, cvars>>

(***************************************************************************)
(* delete_item                                                             *)
(***************************************************************************)
DeleteSelect(p) ==
    /\ At(p, "delete_select")
    /\ Load(p, "delete_commit")
    /\ UNCHANGED <<store, cache, req, nreq, ver, prov, wrote, last, hist, cvars>>

DeleteCommit(p) ==
    /\ At(p, "delete_commit")
    /\ store' = Delete(store, loc[p].item_uuid)
    /\ Committed(p, loc[p].item_uuid)
    /\ Goto(p, "delete_invalidate_item")
    /\ UNCHANGED <<cache, req, loc, nreq, prov, wrote, hist, cvars>>

DeleteInvalidateItem(p) ==
    /\ At(p, "delete_invalidate_item")
    /\ \E fail \in BOOLEAN : Invalidate(p, ItemKey(req[p].item_id), fail)
    /\ Goto(p, "delete_invalidate_all")
    /\ UNCHANGED <<store, req, loc, nreq, ver, wrote, last, cvars>>

DeleteInvalidateAll(p) ==
    /\ At(p, "delete_invalidate_all")
    /\ \E fail \in BOOLEAN : Invalidate(p, KeyAll, fail)
    /\ Return(p, [NoResp EXCEPT !.status = 200, !.detail = "Item deleted"])
    /\ Succeeded(p, loc[p].item_uuid, {KeyAll, ItemKey(req[p].item_id)}, None)
    /\ UNCHANGED <<store, req, loc, nreq, ver, cvars>>

Step ==
    \/ \E p \in Procs : Finish(p)
    \/ \E k \in CacheKeys : Expire(k)
    \/ \E p \in Procs : ListGetCache(p)
    \/ \E p \in Procs : ListSelect(p)
    \/ \E p \in Procs : ListSetCache(p)
    \/ \E p \in Procs : GetGetCache(p)
    \/ \E p \in Procs : GetSelect(p)
    \/ \E p \in Procs : GetSetCache(p)
    \/ \E p \in Procs : CreateSelect(p)
    \/ \E p \in Procs : CreateCommit(p)
    \/ \E p \in Procs : CreateRefresh(p)
    \/ \E p \in Procs : CreateInvalidate(p)
    \/ \E p \in Procs : UpdateSelect(p)
    \/ \E p \in Procs : UpdateCommit(p)
    \/ \E p \in Procs : UpdateRefresh(p)
    \/ \E p \in Procs : UpdateInvalidateItem(p)
    \/ \E p \in Procs : UpdateInvalidateAll(p)
    \/ \E p \in Procs : DeleteSelect(p)
    \/ \E p \in Procs : DeleteCommit(p)
    \/ \E p \in Procs : DeleteInvalidateItem(p)
    \/ \E p \in Procs : DeleteInvalidateAll(p)

\* requests are admitted whenever a slot is free
Next ==
    \/ \E p \in Procs : Start(p, MaxRequests)
    \/ Step

Spec == Init /\ [][Next]_vars

\* requests are admitted one at a time, each after the previous response
SeqNext ==
    \/ \E p \in Procs : (\A q \in Procs : pc[q] = "idle") /\ Start(p, MaxSeqRequests)
    \/ Step

SeqSpec == Init /\ [][SeqNext]_vars

(***************************************************************************)
(* Reads that go on for ever after the last write.  The response of every  *)
(* returned request is sent, and an entry left alone expires when its TTL  *)
(* has run: set_cache stores every value with setex (cache.py:51).         *)
(***************************************************************************)
LiveReads ==
    {r \in Requests : r.op = "list" \/ (r.op = "get" /\ IsUuid(r.item_id))}

LiveWrites ==
    {r \in Requests :
        \/ r.op = "create" /\ r.body = Widget
        \/ r.op = "update" /\ r.item_id \in {"u1", "U1"} /\ r.body = Widget
        \/ r.op = "delete" /\ r.item_id \in {"u1", "U1"}}

StartRead(p) ==
    /\ Admit(p, LiveReads)
    /\ nreq' = nreq

StartWrite(p) ==
    /\ nreq < MaxLiveWrites
    /\ nreq' = nreq + 1
    /\ Admit(p, LiveWrites)

LiveNext ==
    \/ \E p \in Procs : StartRead(p)
    \/ \E p \in Procs : StartWrite(p)
    \/ Step

LiveSpec ==
    /\ Init
    /\ [][LiveNext]_vars
    /\ \A p \in Procs : WF_vars(Finish(p))
    /\ \A k \in CacheKeys : SF_vars(Expire(k))

(***************************************************************************)
(* The cache client module on its own (src/cache.py): its operations are   *)
(* coroutines called by concurrent requests, each suspended at its awaits: *)
(* get_redis_client(), then the Redis command(s).  `cache` is the Redis    *)
(* database.  close_redis is the shutdown hook: it runs once, after the    *)
(* last operation has returned.                                            *)
(***************************************************************************)
\* glob patterns: items:* and items:u*
Patterns == {<<"items", "*">>, <<"items", "u*">>}

\* the key matches the glob pattern
Matches(pat, k) ==
    /\ k[1] = pat[1]
    /\ \/ pat[2] = "*"
       \/ pat[2] = "u*" /\ k[2] \in {"u1", "u2"}

\* client.keys(pattern)
Keys(c, pat) == {k \in DOMAIN c : c[k] # None /\ Matches(pat, k)}

\* DEL that removes one of the keys and leaves the others
DeleteOneKey(c, keys) ==
    IF keys = {} THEN c ELSE [c EXCEPT ![CHOOSE k \in keys : TRUE] = None]

\* client.delete(*keys): one DEL command removes all its keys together
DeleteKeys(c, keys) == [k \in DOMAIN c |-> IF k \in keys THEN None ELSE c[k]]

\* client.flushdb()
FlushDb(c) == [k \in DOMAIN c |-> None]

CacheValue == JsonDumps({})

CacheOps ==
    {[op |-> o, key |-> k] : o \in {"get_cache", "set_cache", "delete_cache"}, k \in CacheKeys}
    \cup {[op |-> "delete_cache_pattern", key |-> pat] : pat \in Patterns}
    \cup {[op |-> "clear_all_cache", key |-> <<>>]}

TaskAt(t, l) == task[t].pc = l

TaskGoto(t, l) == [task[t] EXCEPT !.pc = l]

TaskReturn(t, v) == [task[t] EXCEPT !.pc = "done", !.ret = Some(v)]

\* a request calls an operation of the cache client
CallCache(t) ==
    /\ TaskAt(t, "idle")
    /\ ~conn.down
    /\ conn.ops < MaxCacheOps
    /\ \E o \in CacheOps :
         task' = [task EXCEPT ![t] = [NoTask EXCEPT !.op = o.op, !.key = o.key,
                                                    !.pc = "get_redis_client"]]
    /\ conn' = [conn EXCEPT !.ops = @ + 1]
    /\ UNCHANGED <<cache, redis_client, hvars>>

\* aioredis.from_url(...) has made a connection: lines 20-25
Connected(t) ==
    LET c == conn.opened + 1
    IN  /\ conn' = [conn EXCEPT !.opened = c]
        /\ redis_client' = Some(c)
        /\ task' = [task EXCEPT ![t] = [TaskGoto(t, "command") EXCEPT !.client = c]]

\* get_redis_client(), lines 18-20 and 25: `if redis_client is None`; the await
\* of line 20 may suspend the coroutine or complete at once
GetRedisClient(t) ==
    /\ TaskAt(t, "get_redis_client")
    /\ IF redis_client = None
       THEN \E suspends \in BOOLEAN :
              IF suspends
              THEN /\ task' = [task EXCEPT ![t] = TaskGoto(t, "from_url")]
                   /\ UNCHANGED <<redis_client, conn>>
              ELSE Connected(t)
       ELSE /\ task' = [task EXCEPT ![t] = [TaskGoto(t, "command") EXCEPT
                                              !.client = redis_client[1]]]
            /\ UNCHANGED <<redis_client, conn>>
    /\ UNCHANGED <<cache, hvars>>

\* get_redis_client() resumes from `await aioredis.from_url(...)`
FromUrl(t) ==
    /\ TaskAt(t, "from_url")
    /\ Connected(t)
    /\ UNCHANGED <<cache, hvars>>

\* the first Redis command of the operation, inside its try/except
Command(t) ==
    /\ TaskAt(t, "command")
    /\ \E failure \in BOOLEAN :
         LET fail == failure \/ task[t].client \in conn.closed
             op == task[t].op
             key == task[t].key
         IN  CASE op = "get_cache" ->
                    /\ task' = [task EXCEPT ![t] = TaskReturn(t, get_cache(cache, key, fail).value)]
                    /\ cache' = cache
               [] op = "set_cache" ->
                    LET r == set_cache(cache, key, CacheValue, fail)
                    IN  /\ task' = [task EXCEPT ![t] = TaskReturn(t, r.ret)]
                        /\ cache' = r.cache
               [] op = "delete_cache" ->
                    LET r == delete_cache(cache, key, fail)
                    IN  /\ task' = [task EXCEPT ![t] = TaskReturn(t, r.ret)]
                        /\ cache' = r.cache
               [] op = "delete_cache_pattern" ->
                    /\ cache' = cache
                    /\ task' = [task EXCEPT ![t] =
                                  IF fail THEN TaskReturn(t, FALSE)
                                  ELSE IF Keys(cache, key) = {} THEN TaskReturn(t, TRUE)
                                  ELSE [TaskGoto(t, "delete_keys") EXCEPT !.keys = Keys(cache, key)]]
               [] op = "clear_all_cache" ->
                    /\ task' = [task EXCEPT ![t] = TaskReturn(t, ~fail)]
                    /\ cache' = IF fail THEN cache ELSE FlushDb(cache)
    /\ UNCHANGED <<redis_client, conn, hvars>>

\* delete_cache_pattern, lines 75-79: await client.delete(*keys)
DeletePatternKeys(t) ==
    /\ TaskAt(t, "delete_keys")
    /\ \E failure \in BOOLEAN :
         LET fail == failure \/ task[t].client \in conn.closed
         IN  /\ task' = [task EXCEPT ![t] = TaskReturn(t, ~fail)]
             /\ cache' = IF fail THEN cache ELSE DeleteKeys(cache, task[t].keys)
    /\ UNCHANGED <<redis_client, conn, hvars>>

\* the caller has the operation's result
TaskDone(t) ==
    /\ TaskAt(t, "done")
    /\ task' = [task EXCEPT ![t] = NoTask]
    /\ UNCHANGED <<cache, redis_client, conn, hvars>>

\* shutdown_event calls close_redis(), line 31: `if redis_client:`
CloseRedis(t) ==
    /\ \A q \in Tasks : TaskAt(q, "idle")
    /\ ~conn.down
    /\ conn' = [conn EXCEPT !.down = TRUE]
    /\ task' = [task EXCEPT ![t] =
                  IF redis_client # None
                  THEN [NoTask EXCEPT !.op = "close_redis", !.pc = "close",
                                      !.client = redis_client[1]]
                  ELSE [NoTask EXCEPT !.op = "close_redis", !.pc = "done"]]
    /\ UNCHANGED <<cache, redis_client, hvars>>

\* close_redis() resumes from `await redis_client.close()`: line 33
Closed(t) ==
    /\ TaskAt(t, "close")
    /\ conn' = [conn EXCEPT !.closed = @ \cup {task[t].client}]
    /\ redis_client' = None
    /\ task' = [task EXCEPT ![t] = TaskGoto(t, "done")]
    /\ UNCHANGED <<cache, hvars>>

CacheInit == Init /\ store = EmptyBag

CacheNext ==
    \/ \E t \in Tasks : CallCache(t)
    \/ \E t \in Tasks : GetRedisClient(t)
    \/ \E t \in Tasks : FromUrl(t)
    \/ \E t \in Tasks : Command(t)
    \/ \E t \in Tasks : DeletePatternKeys(t)
    \/ \E t \in Tasks : TaskDone(t)
    \/ \E t \in Tasks : CloseRedis(t)
    \/ \E t \in Tasks : Closed(t)
    \/ \E k \in CacheKeys : Expire(k)

CacheSpec == CacheInit /\ [][CacheNext]_vars

(***************************************************************************)
(* C1.  Write-invalidate under concurrency.                                *)
(***************************************************************************)
\* the value at key k was read from a store version older than the last
\* successful write touching k
Stale(k) == cache[k] # None /\ prov[k] < wrote[k].ver

GotItem(p, u) ==
    /\ pc[p] = "done"
    /\ req[p].op = "get"
    /\ IsUuid(req[p].item_id)
    /\ UUID(req[p].item_id) = u

\* C2 (as claimed): after update_item(X, payload) succeeds, every subsequent
\* get_item(X) with no intervening write returns the payload's name,
\* description and price.  Stated for the runs in which every cache delete
\* succeeded.
C2_GetAfterUpdate ==
    ~hist.lost =>
        \A p \in Procs, u \in UUIDs :
            (GotItem(p, u) /\ last[u].op = "update") =>
                /\ resp[p].status = 200
                /\ resp[p].item # None
                /\ LET got == resp[p].item[1]
                       item == ItemCreate(last[u].body)
                   IN  /\ got.name = item.name
                       /\ got.description = item.description
                       /\ got.price = item.price

\* C3 (as claimed): after delete_item(X) succeeds, every subsequent get_item(X)
\* fails NOT_FOUND and every subsequent list_items result excludes X, until X is
\* created again.  Stated for the runs in which every cache delete succeeded.
C3_GoneAfterDelete ==
    ~hist.lost =>
        \A p \in Procs, u \in UUIDs :
            last[u].op = "delete" =>
                /\ GotItem(p, u) => resp[p].status = 404
                /\ (pc[p] = "done" /\ req[p].op = "list") =>
                       \A i \in resp[p].items : i.id # Str(u)

\* C4 (as claimed): when create_item succeeds, a get_item with the returned
\* identifier and no intervening write returns an item equal to the created
\* one on id, name, description, price and in_stock.  Stated for the runs in
\* which every cache delete succeeded.
C4_GetAfterCreate ==
    ~hist.lost =>
        \A p \in Procs, u \in UUIDs :
            (GotItem(p, u) /\ last[u].op = "create" /\ req[p].item_id = last[u].item[1].id) =>
                /\ resp[p].status = 200
                /\ resp[p].item = last[u].item

(***************************************************************************)
(* C5.  Creating under an identifier that is taken.                        *)
(***************************************************************************)
\* slot p is about to run the existence check of a create_item whose payload
\* supplies identifier u, and the store holds an item with identifier u
CreatesTaken(p, u) ==
    /\ pc[p] = "create_select"
    /\ "id" \in DOMAIN req[p].body
    /\ IsUuid(req[p].body.id)
    /\ UUID(req[p].body.id) = u
    /\ SelectById(store, u) # {}

\* C5: create_item with a supplied identifier equal to that of an item already
\* in the store fails ALREADY_EXISTS (400) and leaves the store unchanged.
C5_TakenIdRejected ==
    [][\A p \in Procs, u \in UUIDs :
          (CreatesTaken(p, u) /\ pc'[p] # pc[p]) =>
              /\ pc'[p] = "done"
              /\ resp'[p].status = 400
              /\ resp'[p].detail = "Item with this ID already exists"
              /\ ~gh'[p].committed
              /\ store' = store]_vars

\* a create_item was refused for an identifier its payload supplied, the item is still stored
C5_Witness ==
    \E p \in Procs :
        /\ pc[p] = "done"
        /\ req[p].op = "create"
        /\ "id" \in DOMAIN req[p].body
        /\ resp[p].detail = "Item with this ID already exists"
        /\ SelectById(store, loc[p].item_uuid) # {}

(***************************************************************************)
(* C6.  Malformed identifiers.                                             *)
(***************************************************************************)
\* the request in slot p carries an identifier uuid.UUID rejects
MalformedId(p) ==
    CASE req[p].op \in {"get", "update", "delete"} -> ~IsUuid(req[p].item_id)
      [] req[p].op = "create" -> "id" \in DOMAIN req[p].body /\ ~IsUuid(req[p].body.id)
      [] OTHER -> FALSE

\* C6 (as claimed): get_item, update_item and delete_item called with a
\* malformed identifier, and create_item called with a payload that supplies a
\* malformed identifier, fail INVALID_INPUT (400) before any cache or store
\* access is made.
C6_MalformedRejected ==
    \A p \in Procs :
        (pc[p] = "done" /\ MalformedId(p)) =>
            /\ resp[p].status = 400
            /\ resp[p].detail = "Invalid UUID format"
            /\ ~gh[p].touched

(***************************************************************************)
(* C7.  The in-stock flag on update.                                       *)
(***************************************************************************)
\* C7 (as claimed): when the payload of update_item omits in_stock the item
\* keeps its prior in_stock value, in the response and in the store.
C7_InStockKept ==
    \A p \in Procs :
        (/\ pc[p] = "done"
         /\ req[p].op = "update"
         /\ resp[p].status = 200
         /\ "in_stock" \notin DOMAIN req[p].body) =>
            /\ resp[p].item[1].in_stock = gh[p].prior[1].in_stock
            /\ \A r \in SelectById(store, loc[p].item_uuid) :
                   r.in_stock = gh[p].prior[1].in_stock

(***************************************************************************)
(* C8.  Cache failures are soft.                                           *)
(***************************************************************************)
\* C8: a request one of whose cache operations failed does not fail for it:
\* list_items and get_item answer with what they read from the store (404 when
\* the store has no such item), create_item, update_item and delete_item have
\* committed and answer with their success status.
C8_CacheFailureSoft ==
    \A p \in Procs :
        (pc[p] = "done" /\ gh[p].cacheErr) =>
            /\ resp[p].status # 500
            /\ req[p].op = "list" =>
                   resp[p].status = 200 /\ resp[p].items = loc[p].listing
            /\ req[p].op = "get" =>
                   IF loc[p].db_item = None
                   THEN resp[p].status = 404
                   ELSE /\ resp[p].status = 200
                        /\ resp[p].item = Some(ItemResponse(loc[p].db_item[1]))
            /\ req[p].op \in {"create", "update", "delete"} =>
                   /\ gh[p].committed
                   /\ resp[p].status = IF req[p].op = "create" THEN 201 ELSE 200

\* a get_item whose cache lookup or population failed answered 200 from the store
C8_Witness ==
    \E p \in Procs :
        /\ pc[p] = "done"
        /\ gh[p].cacheErr
        /\ req[p].op = "get"
        /\ resp[p].status = 200
        /\ cache[ItemKey(req[p].item_id)] = None

(***************************************************************************)
(* C9, C10.  Identifier uniqueness and colliding creates.                  *)
(***************************************************************************)
\* C9: in every reachable state the store holds at most one item per identifier.
C9_UniqueId ==
    \A r \in RowsOf(store) :
        /\ CopiesIn(r, store) = 1
        /\ \A s \in RowsOf(store) : s.id = r.id => s = r

\* two creates passed the existence check for one identifier; the first has
\* inserted, the second was rejected by the store, which holds one such item
C9_Witness ==
    \E p \in Procs :
        /\ pc[p] = "done"
        /\ req[p].op = "create"
        /\ resp[p].detail = "IntegrityError"
        /\ Cardinality(SelectById(store, loc[p].item_uuid)) = 1

\* C10 (as claimed): an identifier collision on create always ends as
\* ALREADY_EXISTS (400) and never as a server error: a create_item that
\* supplied a well-formed identifier and inserted nothing answers 400
\* "Item with this ID already exists".
C10_CollisionIsAlreadyExists ==
    \A p \in Procs :
        (/\ pc[p] = "done"
         /\ req[p].op = "create"
         /\ "id" \in DOMAIN req[p].body
         /\ IsUuid(req[p].body.id)
         /\ ~gh[p].committed) =>
            /\ resp[p].status = 400
            /\ resp[p].detail = "Item with this ID already exists"

(***************************************************************************)
(* C11.  list_items reads through the cache.                               *)
(***************************************************************************)
\* slot p runs the await of list_items it is suspended at l
ListStep(p, l) == pc[p] = l /\ req[p].op = "list" /\ pc'[p] # pc[p]

\* C11 (as claimed): list_items returns the deserialized cached collection
\* without any store access whenever a value is present at items:all; only when
\* the key is absent does it query the store, and it then writes the resulting
\* collection to items:all before returning it.
C11_ListReadThrough ==
    [][\A p \in Procs :
          /\ ListStep(p, "list_get_cache") =>
                 IF cache[KeyAll] # None
                 THEN /\ pc'[p] = "done"
                      /\ resp'[p].status = 200
                      /\ resp'[p].items = JsonLoads(cache[KeyAll][1])
                 ELSE pc'[p] = "list_select"
          /\ ListStep(p, "list_set_cache") =>
                 /\ pc'[p] = "done"
                 /\ cache'[KeyAll] = Some(JsonDumps(resp'[p].items))]_vars

\* C11 (amended): list_items returns the deserialized cached collection without
\* any store access whenever its read of items:all succeeds and finds a value;
\* it queries the store only when the key is absent or the cache read failed,
\* and it then returns the collection it read from the store after attempting
\* to write it to items:all: the key holds that collection unless a cache
\* operation of the request failed, and then the cache is left as it was.
C11_ListReadThroughSoft ==
    [][\A p \in Procs :
          /\ ListStep(p, "list_get_cache") =>
                 /\ store' = store /\ cache' = cache
                 /\ IF cache[KeyAll] # None /\ ~gh'[p].cacheErr
                    THEN /\ pc'[p] = "done"
                         /\ resp'[p].status = 200
                         /\ resp'[p].items = JsonLoads(cache[KeyAll][1])
                    ELSE /\ pc'[p] = "list_select"
                         /\ cache[KeyAll] = None \/ gh'[p].cacheErr
          /\ ListStep(p, "list_select") =>
                 /\ pc'[p] = "list_set_cache"
                 /\ loc'[p].listing = SelectAll(store)
          /\ ListStep(p, "list_set_cache") =>
                 /\ pc'[p] = "done"
                 /\ resp'[p].status = 200
                 /\ resp'[p].items = loc[p].listing
                 /\ \/ cache'[KeyAll] = Some(JsonDumps(loc[p].listing))
                    \/ gh'[p].cacheErr /\ cache' = cache]_vars

\* a list_items was answered from items:all: it returns items it never selected
\* from the store, and none of its cache operations failed
C11_Witness ==
    \E p \in Procs :
        /\ pc[p] = "done"
        /\ req[p].op = "list"
        /\ ~gh[p].cacheErr
        /\ resp[p].items # {}
        /\ loc[p].listing = {}
        /\ cache[KeyAll] = Some(JsonDumps(resp[p].items))

(***************************************************************************)
(* C12.  The cache connection.                                             *)
(***************************************************************************)
\* close_redis has returned
ShutDown == conn.down /\ \A t \in Tasks : task[t].pc \in {"idle", "done"}

\* C12 (as claimed): the cache connection is a process-wide singleton: under
\* any interleaving of concurrent first cache operations the connection is
\* established at most once, every later cache operation uses that same
\* connection until close_redis, and after close_redis no connection is held.
C12_Singleton ==
    /\ conn.opened <= 1
    /\ \A t \in Tasks :
           task[t].pc \in {"command", "delete_keys"} => redis_client = Some(task[t].client)
    /\ ShutDown =>
           /\ redis_client = None
           /\ \A c \in 1..conn.opened : c \in conn.closed

(***************************************************************************)
(* C19.  delete_cache_pattern.                                             *)
(***************************************************************************)
\* task t runs an await of delete_cache_pattern
PatternStep(t) == task[t].op = "delete_cache_pattern" /\ task'[t].pc # task[t].pc

\* task t returns v from delete_cache_pattern
PatternReturns(t, v) == PatternStep(t) /\ task'[t].pc = "done" /\ task'[t].ret = Some(v)

\* C19 (as claimed): delete_cache_pattern(p) invalidates the whole family of
\* keys matching p: none of its steps leaves some keys matching p deleted while
\* others matching p are still present, and when it returns True no key
\* matching p that was set before it returned remains in the cache.
C19_FamilyInvalidated ==
    [][\A t \in Tasks :
          /\ (PatternStep(t) /\ cache' # cache) => Keys(cache', task[t].key) = {}
          /\ PatternReturns(t, TRUE) => Keys(cache', task[t].key) = {}]_vars

\* C19 (amended): delete_cache_pattern(p) reads the set of keys matching p
\* without changing the cache and then removes exactly that set with one
\* command: the scanned keys are removed all together when it returns True and
\* none is removed when it returns False, and no other key is touched.  A key
\* matching p that is set between the scan and the removal is not in the
\* scanned set and remains.
C19_ScannedSetInvalidated ==
    [][\A t \in Tasks :
          /\ (PatternStep(t) /\ task[t].pc = "command") =>
                 /\ cache' = cache
                 /\ task'[t].pc = "delete_keys" =>
                        task'[t].keys = Keys(cache, task[t].key) /\ task'[t].keys # {}
                 /\ PatternReturns(t, TRUE) => Keys(cache, task[t].key) = {}
          /\ (PatternStep(t) /\ task[t].pc = "delete_keys") =>
                 /\ PatternReturns(t, TRUE) \/ PatternReturns(t, FALSE)
                 /\ PatternReturns(t, FALSE) => cache' = cache
                 /\ PatternReturns(t, TRUE) =>
                        \A k \in CacheKeys :
                            cache'[k] = IF k \in task[t].keys THEN None ELSE cache[k]]_vars

\* a delete_cache_pattern that scanned several keys returned True, and a key
\* matching its pattern, set after the scan, is in the cache
C19_Witness ==
    \E t \in Tasks :
        /\ task[t].op = "delete_cache_pattern"
        /\ task[t].pc = "done"
        /\ task[t].ret = Some(TRUE)
        /\ Cardinality(task[t].keys) >= 2
        /\ Keys(cache, task[t].key) # {}
        /\ Keys(cache, task[t].key) \cap task[t].keys = {}

(***************************************************************************)
(* C13.  One cache key per item.                                           *)
(***************************************************************************)
\* the per-identifier cache keys holding an entry for identifier u
EntriesOf(u) == {s \in DOMAIN Spellings : UUID(s) = u /\ cache[ItemKey(s)] # None}

\* C13 (as claimed): for every identifier string the format validator accepts,
\* non-canonical spellings included, the key get_item populates for an item is
\* the key update_item and delete_item invalidate for it: an item never has
\* more than one per-identifier cache entry, and no entry read before a
\* successful update or delete of the item survives it.  Stated for requests
\* handled one at a time and for the runs in which every cache delete succeeded.
C13_OneKeyPerItem ==
    \A u \in UUIDs :
        /\ Cardinality(EntriesOf(u)) <= 1
        /\ (~hist.lost /\ last[u].op \in {"update", "delete"}) =>
               \A s \in EntriesOf(u) : prov[ItemKey(s)] >= last[u].ver

(***************************************************************************)
(* C14.  The cache agrees with the store between requests.                 *)
(***************************************************************************)
\* no request is being handled
BetweenRequests == \A p \in Procs : pc[p] = "idle"

\* the entry at items:all is the serialization of exactly the stored items
AllAgrees == cache[KeyAll] # None => cache[KeyAll][1] = JsonDumps(SelectAll(store))

\* the entry at items:s is the serialization of the stored row with identifier s
ItemAgrees(s) ==
    cache[ItemKey(s)] # None =>
        \E r \in RowsOf(store) :
            /\ Str(r.id) = s
            /\ cache[ItemKey(s)][1] = JsonDumps(ItemResponse(r))

\* C14: when requests run one at a time to completion, every identifier is
\* given in canonical form and every cache operation succeeds, then in every
\* state between requests items:all, if present, is the serialization of
\* exactly the items in the store and items:X, if present, is the serialization
\* of the store row X.  Checked for every run in which no cache delete failed:
\* a failed cache read or write leaves the cache as it was.
C14_CacheAgreesWithStore ==
    (BetweenRequests /\ ~hist.spelled /\ ~hist.lost) =>
        /\ AllAgrees
        /\ \A s \in DOMAIN Spellings : ItemAgrees(s)

\* between requests, after a write, with canonical identifiers and no failed
\* cache delete: the collection and an item are cached
C14_Witness ==
    /\ BetweenRequests /\ ~hist.spelled /\ ~hist.lost
    /\ ver > 0
    /\ cache[KeyAll] # None
    /\ \E u \in UUIDs : cache[ItemKey(Str(u))] # None /\ last[u].op \in {"create", "update"}

(***************************************************************************)
(* C17.  update_item changes one item and no identifier.                   *)
(***************************************************************************)
\* the identifiers in the table
IdsOf(st) == {r.id : r \in RowsOf(st)}

\* slot p runs an await of update_item
UpdateStep(p) == req[p].op = "update" /\ pc'[p] # pc[p] /\ pc[p] # "done"

\* C17: update_item never changes an item's identifier nor any other item: its
\* commit leaves the set of stored identifiers as it was, the row it writes is
\* the row with the path identifier X even when the payload carries a
\* different id, and every other row is unchanged; no other step of the handler
\* writes the store, and a successful response carries identifier X.
C17_UpdateFrame ==
    [][\A p \in Procs :
          UpdateStep(p) =>
              LET X == loc[p].item_uuid
              IN  /\ IdsOf(store') = IdsOf(store)
                  /\ \A r \in RowsOf(store) :
                         r.id # X => r \in RowsOf(store') /\ CopiesIn(r, store') = CopiesIn(r, store)
                  /\ pc[p] # "update_commit" => store' = store
                  /\ Cardinality(SelectById(store', X)) = Cardinality(SelectById(store, X))
                  /\ (pc'[p] = "done" /\ resp'[p].status = 200) =>
                         /\ resp'[p].item[1].id = Str(UUID(req[p].item_id))
                         /\ X = UUID(req[p].item_id)]_vars

\* an update_item whose payload carries another item's identifier succeeded
\* while that other item is stored
C17_Witness ==
    \E p \in Procs :
        /\ pc[p] = "done"
        /\ req[p].op = "update"
        /\ resp[p].status = 200
        /\ "id" \in DOMAIN req[p].body
        /\ UUID(req[p].body.id) # loc[p].item_uuid
        /\ UUID(req[p].body.id) \in IdsOf(store)
        /\ loc[p].item_uuid \in IdsOf(store)

(***************************************************************************)
(* C16.  Requests that end in an error change nothing.                     *)
(***************************************************************************)
\* slot p takes the step that ends its request with INVALID_INPUT,
\* ALREADY_EXISTS (400) or NOT_FOUND (404)
EndsInError(p) == pc[p] # "done" /\ pc'[p] = "done" /\ resp'[p].status \in {400, 404}

\* C16: a request that ends with INVALID_INPUT, ALREADY_EXISTS or NOT_FOUND
\* leaves the store and the cache as they were: the step that raises the error
\* changes neither, it is the first step of its handler or, for get_item, the
\* store lookup that follows the cache lookup, and that cache lookup changes
\* neither; the request has committed nothing, and no entry is written for a
\* NOT_FOUND result.
C16_ErrorChangesNothing ==
    [][\A p \in Procs :
          /\ EndsInError(p) =>
                 /\ store' = store /\ cache' = cache
                 /\ ~gh[p].committed
                 /\ \/ pc[p] = Entry(req[p].op)
                    \/ req[p].op = "get" /\ pc[p] = "get_select"
          /\ (pc[p] = "get_get_cache" /\ pc'[p] # pc[p]) =>
                 store' = store /\ cache' = cache]_vars

\* a get_item ended NOT_FOUND while the store and the cache hold data, and
\* nothing is cached under the key it named
C16_Witness ==
    \E p \in Procs :
        /\ pc[p] = "done"
        /\ req[p].op = "get"
        /\ resp[p].status = 404
        /\ store # EmptyBag
        /\ cache[KeyAll] # None
        /\ cache[ItemKey(req[p].item_id)] = None

(***************************************************************************)
(* C18.  The existence check of create_item.                               *)
(***************************************************************************)
\* C18 (as claimed): create_item without a supplied identifier generates a
\* fresh identifier and persists the item without any existence lookup against
\* the store; the lookup is made only when the payload supplies an identifier.
\* (The lookup of lines 148-149 is the first store access of create_item; the
\* history records it as `touched`.)
C18_NoLookupWithoutId ==
    \A p \in Procs :
        (/\ req[p].op = "create"
         /\ "id" \notin DOMAIN req[p].body
         /\ pc[p] \in {"create_commit", "create_refresh", "create_invalidate", "done"}) =>
            ~gh[p].touched

(***************************************************************************)
(* C15.  Staleness is bounded by the TTL.                                  *)
(***************************************************************************)
\* no write is being handled
WritesStopped == \A p \in Procs : req[p].op \notin {"create", "update", "delete"}

\* the entry at key k is what a read of the store would put there now
EntryCurrent(k) ==
    cache[k] # None =>
        IF k = KeyAll THEN cache[k][1] = JsonDumps(SelectAll(store))
        ELSE \E r \in SelectById(store, UUID(k[2])) : cache[k][1] = JsonDumps(ItemResponse(r))

\* the response in slot p, if it is that of a list_items or of a get_item with
\* a well-formed identifier, is the store's current data
ResponseCurrent(p) ==
    /\ (pc[p] = "done" /\ req[p].op = "list") =>
           resp[p].status = 200 /\ resp[p].items = SelectAll(store)
    /\ (pc[p] = "done" /\ req[p].op = "get" /\ IsUuid(req[p].item_id)) =>
           LET rows == SelectById(store, UUID(req[p].item_id))
           IN  IF rows = {} THEN resp[p].status = 404
               ELSE resp[p].status = 200 /\ resp[p].item[1] \in {ItemResponse(r) : r \in rows}

Current == (\A k \in CacheKeys : EntryCurrent(k)) /\ (\A p \in Procs : ResponseCurrent(p))

\* C15: every entry the service writes carries an expiry, so a stale entry is
\* eventually treated as absent: if writes stop and expiry is fair, from some
\* point on every cache entry holds the store's current data and every
\* get_item(X) and list_items returns the store's current data.
C15_StalenessBounded == (<>[]WritesStopped) => <>[]Current

\* the writes have stopped and an entry holds data the store no longer has
C15_Witness ==
    /\ WritesStopped
    /\ nreq = MaxLiveWrites
    /\ \E k \in CacheKeys : ~EntryCurrent(k)

====
